---- MODULE Spec2Model ----
(***************************************************************************)
(* Model of bot.py: the trading loop (background thread), the Telegram     *)
(* webhook (Flask thread), the positions table and the sqlite cursor the   *)
(* two threads share, and the three global runtime settings.               *)
(*                                                                         *)
(* Prices are integers in the exchange's smallest unit; the trailing       *)
(* fraction 0.15 is kept in percent.  time.time() is the variable now: the *)
(* loop reads it at lines 133 and 282 only, and between two reads the      *)
(* thread waits in time.sleep and in HTTP requests.  The clock advances by *)
(* the action Tick, which can fire at every such wait; only the order of   *)
(* the clock readings and SELL_TIMEOUT matter to the program, so Tick      *)
(* advances the clock one SELL_TIMEOUT at a time.                          *)
(***************************************************************************)
EXTENDS Integers, Sequences, FiniteSets, TLC

\* ------------------------------------------------------------------ bounds
MaxNow == 420
MaxCandles == 2

\* ------------------------------------------------------- program constants
CANDLE_LIMIT == 5
SELL_TIMEOUT == 7 * 60
TRAIL_PERCENT == 15
DefaultBuy == 1
DefaultTarget == 10

\* ------------------------------------------------------------ input domains
Syms == {"AUSDT", "BUSDT"}
Prices == {50, 200, 1000}
FillPrices == {100}
Qtys == {3}
\* the quantity the exchange receives when row[0] is not a number
NotANumber == -1

VARIABLES
    bot_running,        \* global flag, line 52
    BUY_USDT_AMOUNT,    \* global, line 50
    TARGET_MULTIPLIER,  \* global, line 51
    positions,          \* the positions table, in rowid order
    cur,                \* the result set pending on the shared cursor
    known,              \* trading_loop local
    new,                \* symbols of the for loop at line 259 not yet visited
    sym,                \* argument of the market_buy call in progress
    rows,               \* rows of the for loop at line 270, current row first
    pc,                 \* position of the trading loop
    wpc,                \* position of the webhook handler
    now,                \* time.time()
    first,              \* no cycle has completed since process start
    fault,              \* the exception that ended the trading thread
    reopened,           \* the INSERT OR REPLACE just executed replaced a row
    skipped,            \* symbols whose candles the last Discovery did not get
    price,              \* trading_loop local, line 271
    reason,             \* argument of the market_sell call in progress
    data,               \* market_buy local, line 117
    usage               \* the last reply of the webhook is a Usage: message

vars == <<bot_running, BUY_USDT_AMOUNT, TARGET_MULTIPLIER, positions, cur,
          known, new, sym, rows, pc, wpc, now, first, fault, reopened,
          skipped, price, reason, data, usage>>

config == <<bot_running, BUY_USDT_AMOUNT, TARGET_MULTIPLIER>>
locals == <<known, new, sym, rows, price, reason, data>>
hist == <<first, fault, reopened, skipped>>

\* ------------------------------------------------------------ the table
Row(s, q, e, t, h) ==
    [symbol |-> s, qty |-> q, entry_price |-> e, entry_time |-> t, high_price |-> h]

HasPosition(tbl, s) == \E i \in DOMAIN tbl : tbl[i].symbol = s

RowsOf(tbl, s) == SelectSeq(tbl, LAMBDA r : r.symbol = s)

\* DELETE FROM positions WHERE symbol=?
DeleteRow(tbl, s) == SelectSeq(tbl, LAMBDA r : r.symbol # s)

\* an INSERT that keeps the old row of the symbol
InsertKeepingOld(tbl, r) == Append(tbl, r)

\* INSERT OR REPLACE on a table whose primary key is symbol: the old row of
\* the symbol goes, the new row gets the next rowid
InsertOrReplace(tbl, r) == Append(DeleteRow(tbl, r.symbol), r)

\* UPDATE positions SET high_price=? WHERE symbol=?
UpdateHigh(tbl, s, p) ==
    [i \in DOMAIN tbl |->
        IF tbl[i].symbol = s THEN [tbl[i] EXCEPT !.high_price = p] ELSE tbl[i]]

\* ------------------------------------------------------------ the cursor
\* q: the statement whose rows are pending; rows: the rows of a SELECT * not
\* yet fetched; n, left: the value of a one-column result and whether its row
\* is still to be fetched.  A cursor with nothing left to fetch is NoResult
\* whatever statement it executed: fetchone() returns None, fetchall() [].
NoResult == [q |-> "none", rows |-> <<>>, n |-> 0, left |-> 0]

SelectAll(tbl) ==
    IF tbl = <<>> THEN NoResult ELSE [q |-> "all", rows |-> tbl, n |-> 0, left |-> 0]

SelectCount(tbl) == [q |-> "count", rows |-> <<>>, n |-> Len(tbl), left |-> 1]

SelectQty(tbl, s) ==
    LET m == RowsOf(tbl, s)
    IN  IF m = <<>> THEN NoResult
        ELSE [q |-> "qty", rows |-> <<>>, n |-> m[1].qty, left |-> 1]

\* does fetchone() return a row
HasRow(c) == IF c.q = "all" THEN c.rows # <<>> ELSE c.left = 1

\* row[0] of the row fetchone() returns
FirstColumn(c) == IF c.q = "all" THEN NotANumber ELSE c.n

AfterFetchOne(c) ==
    IF c.q = "all" /\ Len(c.rows) > 1 THEN [c EXCEPT !.rows = Tail(c.rows)]
    ELSE NoResult

AfterFetchAll(c) == NoResult

\* no response is held outside market_buy
NoData == [orderId |-> FALSE, executedQty |-> 0, fills |-> <<>>]

Init ==
    /\ bot_running = TRUE
    /\ BUY_USDT_AMOUNT = DefaultBuy
    /\ TARGET_MULTIPLIER = DefaultTarget
    /\ positions = <<>>
    /\ cur = NoResult
    /\ known = {}
    /\ new = {}
    /\ sym = ""
    /\ rows = <<>>
    /\ pc = "loop"
    /\ wpc = "idle"
    /\ now = 0
    /\ first = TRUE
    /\ fault = "none"
    /\ reopened = FALSE
    /\ skipped = {}
    /\ price = 0
    /\ reason = "NONE"
    /\ data = NoData
    /\ usage = FALSE

\* a loop that never takes the branch of line 242
PausedNever == FALSE

\* line 242: the test of the flag at the top of the loop body
Paused == ~bot_running

\* line 242-244; the sleep of a paused loop leaves the loop where it is
LoopCheck ==
    /\ pc = "loop"
    /\ pc' = IF Paused THEN "loop" ELSE "info"
    /\ UNCHANGED <<config, positions, cur, locals, wpc, usage, now, hist>>

\* ------------------------------------------------------------ the exchange
AllSyms == Syms \cup {"ABTC"}
QuoteOf == [AUSDT |-> "USDT", BUSDT |-> "USDT", ABTC |-> "BTC"]
\* the entries of the "symbols" list of an exchangeInfo response
Listings == [symbol : AllSyms, status : {"TRADING", "BREAK"}]
\* the responses: a symbol has at most one entry
Infos ==
    {info \in SUBSET Listings :
        \A l, m \in info : l.symbol = m.symbol => l.status = m.status}

\* lines 251-254
TradableUSDT(info) ==
    {s.symbol : s \in {l \in info : l.status = "TRADING" /\ QuoteOf[l.symbol] = "USDT"}}

\* line 256
NewSymbols(symbols, seen) == symbols \ seen

\* a klines response: candles as <<open, close>>, at most limit=CANDLE_LIMIT
\* of them
Candle == {<<1, 1>>, <<1, 2>>}
CandleLists ==
    UNION {[1..n -> Candle] :
            n \in 0..(IF MaxCandles < CANDLE_LIMIT THEN MaxCandles ELSE CANDLE_LIMIT)}

\* line 266; candles is <<>> for an empty list
AllFlat(candles) ==
    /\ candles # <<>>
    /\ \A i \in DOMAIN candles : candles[i][1] = candles[i][2]

\* line 246-257
FetchInfo ==
    /\ pc = "info"
    /\ \/ \* mexc_get returned None: sleep and continue
          /\ pc' = "loop"
          /\ UNCHANGED <<known, new, skipped>>
       \/ \E info \in Infos :
            LET symbols == TradableUSDT(info)
            IN  /\ new' = NewSymbols(symbols, known)
                /\ known' = symbols
                /\ skipped' = {}
                /\ pc' = "discover"
    /\ UNCHANGED <<config, positions, cur, sym, rows, price, reason, data, wpc,
                   usage, now, first, fault, reopened>>

\* line 259-267, one iteration of the for loop up to the call of market_buy
Discover ==
    /\ pc = "discover"
    /\ \E symbol \in new :
        /\ new' = new \ {symbol}
        /\ \/ \* mexc_get returned None
              /\ pc' = "discover"
              /\ sym' = sym
              /\ skipped' = skipped \cup {symbol}
           \/ \E candles \in CandleLists :
                /\ skipped' = skipped
                /\ IF AllFlat(candles)
                   THEN pc' = "buy" /\ sym' = symbol
                   ELSE pc' = "discover" /\ sym' = sym
    /\ UNCHANGED <<config, positions, cur, known, rows, price, reason, data, wpc,
                   usage, now, first, fault, reopened>>

\* a /api/v3/order BUY response body: whether it has an orderId, its
\* executedQty, its fills (their prices)
BuyResponses ==
    [orderId : BOOLEAN, executedQty : Qtys,
     fills : {<<>>} \cup {<<p>> : p \in FillPrices}]

\* line 117-122: the POST of market_buy
BuyRequest ==
    /\ pc = "buy"
    /\ \/ \* requests.post or .json() raised
          /\ pc' = "crashed"
          /\ fault' = "buy_raise"
          /\ data' = data
       \/ \E d \in BuyResponses :
            /\ data' = d
            /\ pc' = "bought"
            /\ fault' = fault
    /\ UNCHANGED <<config, positions, cur, known, new, sym, rows, price, reason,
                   wpc, usage, now, first, reopened, skipped>>

\* the test of line 124 passing whatever the response holds
AcceptedAlways(d) == TRUE

\* line 124: the response is an accepted order
Accepted(d) == d.orderId

\* line 124-137: market_buy from the test of the response on
MarketBuy ==
    /\ pc = "bought"
    /\ data' = NoData
    /\ IF ~Accepted(data)
       THEN /\ pc' = "discover"
            /\ sym' = ""
            /\ UNCHANGED <<positions, cur, fault, reopened>>
       ELSE IF data.fills = <<>>
       THEN \* data["fills"][0] raised
            /\ pc' = "crashed"
            /\ fault' = "fills"
            /\ UNCHANGED <<positions, cur, sym, reopened>>
       ELSE /\ positions' = InsertOrReplace(positions,
                   Row(sym, data.executedQty, data.fills[1], now, data.fills[1]))
            /\ reopened' = HasPosition(positions, sym)
            /\ cur' = NoResult
            /\ pc' = "discover"
            /\ sym' = ""
            /\ fault' = fault
    /\ UNCHANGED <<config, known, new, rows, price, reason, wpc, usage, now,
                   first, skipped>>

\* line 269, the execute
MonitorSelect ==
    /\ pc = "discover"
    /\ new = {}
    /\ cur' = SelectAll(positions)
    /\ pc' = "fetchall"
    /\ reopened' = FALSE
    /\ UNCHANGED <<config, positions, locals, wpc, usage, now, first, fault,
                   skipped>>

\* line 269-270, the fetchall and the unpacking of the first row
MonitorFetchAll ==
    /\ pc = "fetchall"
    /\ cur' = AfterFetchAll(cur)
    /\ IF cur.q = "all"
       THEN /\ rows' = cur.rows
            /\ pc' = "monitor"
            /\ fault' = fault
       ELSE IF HasRow(cur)
       THEN \* a one-column row does not unpack into s, q, entry, t, high
            /\ rows' = <<>>
            /\ pc' = "crashed"
            /\ fault' = "unpack"
       ELSE /\ rows' = <<>>
            /\ pc' = "monitor"
            /\ fault' = fault
    /\ UNCHANGED <<config, positions, known, new, sym, price, reason, data,
                   wpc, usage, now, first, reopened, skipped>>

\* the trailing test without its boundary
TrailFloorPassed(p, high) == p * 100 < high * (100 - TRAIL_PERCENT)

\* line 280: price <= high * (1 - TRAIL_PERCENT), in hundredths
TrailFloorReached(p, high) == p * 100 <= high * (100 - TRAIL_PERCENT)

\* the three tests with the timeout tested first
ExitReasonTimeoutFirst(p, entry, high, t, clock, mult) ==
    IF clock - t >= SELL_TIMEOUT THEN "TIMEOUT"
    ELSE IF p >= entry * mult THEN "TARGET"
    ELSE IF TrailFloorReached(p, high) THEN "TRAIL"
    ELSE "NONE"

\* lines 278-283: the reason handed to market_sell, "NONE" for no call
ExitReason(p, entry, high, t, clock, mult) ==
    IF p >= entry * mult THEN "TARGET"
    ELSE IF TrailFloorReached(p, high) THEN "TRAIL"
    ELSE IF clock - t >= SELL_TIMEOUT THEN "TIMEOUT"
    ELSE "NONE"

\* the multiplier the module was loaded with
TargetAtStartup == DefaultTarget

\* the read of the global at line 278
TargetRead == TARGET_MULTIPLIER

\* line 271
MonitorPrice ==
    /\ pc = "monitor"
    /\ rows # <<>>
    /\ \/ \* mexc_get returned None: None["price"] raised
          /\ pc' = "crashed"
          /\ fault' = "price"
          /\ price' = price
       \/ \E p \in Prices :
            /\ price' = p
            /\ pc' = "eval"
            /\ fault' = fault
    /\ UNCHANGED <<config, positions, cur, known, new, sym, rows, reason, data,
                   wpc, usage, now, first, reopened, skipped>>

\* the high water mark set to every price fetched
HighLastPrice(p, high) == p

\* line 273-276: the high water mark after the test of the fetched price
HighAfter(p, high) == IF p > high THEN p ELSE high

\* line 273-283 for the current row, up to the execute of market_sell; the
\* price is not read again once the iteration of its row has ended
MonitorEval ==
    /\ pc = "eval"
    /\ LET r == Head(rows)
           high == HighAfter(price, r.high_price)
           tbl == IF high # r.high_price
                  THEN UpdateHigh(positions, r.symbol, high)
                  ELSE positions
           why == ExitReason(price, r.entry_price, high, r.entry_time,
                             now, TargetRead)
       IN  /\ positions' = tbl
           /\ reason' = why
           /\ IF why # "NONE"
              THEN /\ cur' = SelectQty(tbl, r.symbol)
                   /\ pc' = "sell"
                   /\ rows' = rows
                   /\ price' = price
              ELSE /\ cur' = IF high # r.high_price THEN NoResult ELSE cur
                   /\ pc' = "monitor"
                   /\ rows' = Tail(rows)
                   /\ price' = 0
    /\ UNCHANGED <<config, known, new, sym, data, wpc, usage, now, hist>>

\* line 143-159: market_sell from its fetchone on
MarketSell ==
    /\ pc = "sell"
    /\ LET s == Head(rows).symbol
       IN  IF ~HasRow(cur)
           THEN \* line 144-145
                /\ cur' = AfterFetchOne(cur)
                /\ pc' = "monitor"
                /\ rows' = Tail(rows)
                /\ reason' = "NONE"
                /\ price' = 0
                /\ UNCHANGED <<positions, fault>>
           ELSE \/ \* requests.post or .json() raised
                   /\ cur' = AfterFetchOne(cur)
                   /\ pc' = "crashed"
                   /\ fault' = "sell_raise"
                   /\ UNCHANGED <<positions, rows, reason, price>>
                \/ \* any response body
                   /\ positions' = DeleteRow(positions, s)
                   /\ cur' = NoResult
                   /\ pc' = "monitor"
                   /\ rows' = Tail(rows)
                   /\ reason' = "NONE"
                   /\ price' = 0
                   /\ fault' = fault
    /\ UNCHANGED <<config, known, new, sym, data, wpc, usage, now, first,
                   reopened, skipped>>

\* line 285
CycleSleep ==
    /\ pc = "monitor"
    /\ rows = <<>>
    /\ pc' = "loop"
    /\ first' = FALSE
    /\ UNCHANGED <<config, positions, cur, locals, wpc, usage, now, fault,
                   reopened, skipped>>

\* time passes while the loop sleeps or waits for a response
Tick ==
    /\ now + SELL_TIMEOUT <= MaxNow
    /\ now' = now + SELL_TIMEOUT
    /\ UNCHANGED <<config, positions, cur, locals, pc, wpc, usage, hist>>

Engine ==
    \/ LoopCheck
    \/ FetchInfo
    \/ Discover
    \/ BuyRequest
    \/ MarketBuy
    \/ MonitorSelect
    \/ MonitorFetchAll
    \/ MonitorPrice
    \/ MonitorEval
    \/ MarketSell
    \/ CycleSleep

\* ------------------------------------------------------------ the webhook
\* the text of a message, split at whitespace
BuyTexts == {<<"/setbuy">>, <<"/setbuy", "abc">>, <<"/setbuy", "5">>}
TargetTexts == {<<"/settarget">>, <<"/settarget", "abc">>, <<"/settarget", "2">>}

\* float() of the tokens it accepts
FloatOf == ("2" :> 2) @@ ("5" :> 5)

\* float(text.split()[1]) returns a value
ParsesFloat(text) == Len(text) >= 2 /\ text[2] \in DOMAIN FloatOf

ParseFloat(text) == FloatOf[text[2]]

\* the global after the try/except of line 218-222 or 225-229: an argument
\* that is missing or not a number leaves it as it was
AssignedOrZero(text, old) == IF ParsesFloat(text) THEN ParseFloat(text) ELSE 0

Assigned(text, old) == IF ParsesFloat(text) THEN ParseFloat(text) ELSE old

\* line 178-186 and the fall through of line 231: /help is answered, any
\* other text is not
OtherTexts == {<<"/help">>, <<"hello">>}

Other ==
    /\ wpc = "idle"
    /\ \E text \in OtherTexts :
        usage' = IF text[1] = "/help" THEN FALSE ELSE usage
    /\ UNCHANGED <<config, positions, cur, locals, pc, wpc, now, hist>>

\* line 189-190, the execute
StatusSelect ==
    /\ wpc = "idle"
    /\ cur' = SelectCount(positions)
    /\ wpc' = "status"
    /\ UNCHANGED <<config, positions, locals, pc, now, hist, usage>>

\* line 190-197, from the fetchone on; None[0] raises and nothing is sent
StatusFetch ==
    /\ wpc = "status"
    /\ cur' = AfterFetchOne(cur)
    /\ wpc' = "idle"
    /\ usage' = IF HasRow(cur) THEN FALSE ELSE usage
    /\ UNCHANGED <<config, positions, locals, pc, now, hist>>

\* line 199-200, the execute
PositionsSelect ==
    /\ wpc = "idle"
    /\ cur' = SelectAll(positions)
    /\ wpc' = "positions"
    /\ UNCHANGED <<config, positions, locals, pc, now, hist, usage>>

\* line 200-207, from the fetchall on; a one-column row does not unpack at
\* line 205 and nothing is sent
PositionsFetch ==
    /\ wpc = "positions"
    /\ cur' = AfterFetchAll(cur)
    /\ wpc' = "idle"
    /\ usage' = IF cur.q = "all" \/ ~HasRow(cur) THEN FALSE ELSE usage
    /\ UNCHANGED <<config, positions, locals, pc, now, hist>>

\* a /pause that also puts the target multiplier back to its startup value
PauseResettingTarget ==
    /\ wpc = "idle"
    /\ bot_running' = FALSE
    /\ TARGET_MULTIPLIER' = DefaultTarget
    /\ usage' = FALSE
    /\ UNCHANGED <<BUY_USDT_AMOUNT, positions, cur, locals, pc, wpc, now, hist>>

\* line 209-211
Pause ==
    /\ wpc = "idle"
    /\ bot_running' = FALSE
    /\ usage' = FALSE
    /\ UNCHANGED <<BUY_USDT_AMOUNT, TARGET_MULTIPLIER, positions, cur, locals,
                   pc, wpc, now, hist>>

\* line 213-215
Resume ==
    /\ wpc = "idle"
    /\ bot_running' = TRUE
    /\ usage' = FALSE
    /\ UNCHANGED <<BUY_USDT_AMOUNT, TARGET_MULTIPLIER, positions, cur, locals,
                   pc, wpc, now, hist>>

\* line 217-222
SetBuy ==
    /\ wpc = "idle"
    /\ \E text \in BuyTexts :
        /\ BUY_USDT_AMOUNT' = Assigned(text, BUY_USDT_AMOUNT)
        /\ usage' = ~ParsesFloat(text)
    /\ UNCHANGED <<bot_running, TARGET_MULTIPLIER, positions, cur, locals,
                   pc, wpc, now, hist>>

\* line 224-229
SetTarget ==
    /\ wpc = "idle"
    /\ \E text \in TargetTexts :
        /\ TARGET_MULTIPLIER' = Assigned(text, TARGET_MULTIPLIER)
        /\ usage' = ~ParsesFloat(text)
    /\ UNCHANGED <<bot_running, BUY_USDT_AMOUNT, positions, cur, locals,
                   pc, wpc, now, hist>>

Webhook ==
    \/ Other
    \/ StatusSelect
    \/ StatusFetch
    \/ PositionsSelect
    \/ PositionsFetch
    \/ Pause
    \/ Resume
    \/ SetBuy
    \/ SetTarget

Next == Engine \/ Webhook \/ Tick

Spec == Init /\ [][Next]_vars

\* ------------------------------------------------ the exit rules alone
\* The evaluation of line 273-283 applied to one stored row and one fetched
\* price: the loop is at line 273 of a Monitor pass over a table of one row
\* bought at 100, its high at 100 or 200, and the ticker has just answered.
TrailPrices == 160..180
TrailRows == {Row(s, q, 100, 0, h) : s \in Syms, q \in Qtys, h \in {100, 200}}

InitTrail ==
    /\ bot_running = TRUE
    /\ BUY_USDT_AMOUNT = DefaultBuy
    /\ TARGET_MULTIPLIER = DefaultTarget
    /\ positions \in {<<r>> : r \in TrailRows}
    /\ rows = positions
    /\ cur = NoResult
    /\ known = {positions[1].symbol}
    /\ new = {}
    /\ sym = ""
    /\ pc = "eval"
    /\ wpc = "idle"
    /\ now \in {0, SELL_TIMEOUT}
    /\ first = FALSE
    /\ fault = "none"
    /\ reopened = FALSE
    /\ skipped = {}
    /\ price \in TrailPrices
    /\ reason = "NONE"
    /\ data = NoData
    /\ usage = FALSE

NextTrail == MonitorEval

SpecTrail == InitTrail /\ [][NextTrail]_vars

\* ------------------------------------------------------------ observations
\* the steps in which the loop sends a request to the exchange
InfoCall == pc = "info" /\ pc' # "info"
KlinesCall == pc = "discover" /\ new' # new
BuyCall == pc = "buy" /\ pc' # "buy"
PriceCall == pc = "monitor" /\ pc' \in {"eval", "crashed"}
SellCall == pc = "sell" /\ HasRow(cur) /\ pc' # "sell"
GatewayCall == InfoCall \/ KlinesCall \/ BuyCall \/ PriceCall \/ SellCall

\* the step that evaluates the exit rules for the current row
EvalStep == pc = "eval" /\ pc' # "eval"

\* the stored row of a symbol
Stored(tbl, s) == RowsOf(tbl, s)[1]

\* ------------------------------------------------------------ claims

\* C1: in every evaluation of a position whose price was fetched, the reason
\* is the first rule that matches in the order TARGET, TRAIL (against the
\* stored high after this cycle's update), TIMEOUT; when none matches no sell
\* is started and the row stays in the table.
C1_ExitPriority ==
    [][EvalStep =>
        LET r == Head(rows)
            h == Stored(positions', r.symbol).high_price
            target == price >= r.entry_price * TARGET_MULTIPLIER
            trail == price * 100 <= h * (100 - TRAIL_PERCENT)
            timeout == now - r.entry_time >= SELL_TIMEOUT
        IN  /\ HasPosition(positions', r.symbol)
            /\ target => reason' = "TARGET"
            /\ (~target /\ trail) => reason' = "TRAIL"
            /\ (~target /\ ~trail /\ timeout) => reason' = "TIMEOUT"
            /\ (~target /\ ~trail /\ ~timeout) =>
                    (reason' = "NONE" /\ pc' = "monitor" /\ rows' = Tail(rows))
            /\ reason' # "NONE" => pc' = "sell"]_vars

\* a sell for TARGET is under way for a position whose hold time has also
\* run out
C1_Witness ==
    /\ pc = "sell"
    /\ reason = "TARGET"
    /\ now - Head(rows).entry_time >= SELL_TIMEOUT

\* C2 (as claimed): while a symbol stays in the table its stored high_price
\* never decreases from one state to the next.
C2_HighWaterMonotone ==
    [][\A s \in Syms :
        (HasPosition(positions, s) /\ HasPosition(positions', s)) =>
            Stored(positions', s).high_price >= Stored(positions, s).high_price]_vars

\* C3 (as claimed): no request is sent to the exchange while bot_running is
\* false.
C3_NoCallWhilePaused == [][GatewayCall => bot_running]_vars

\* C4 (as claimed): a failed price fetch does not end the Monitor pass while
\* other rows of the pass are still to be evaluated.
C4_OthersStillEvaluated == ~(fault = "price" /\ Len(rows) > 1)

\* C5 (as claimed): after the sell request has raised, the row is still in
\* the table and the loop goes on to evaluate it again.
C5_SellErrorRetried ==
    fault = "sell_raise" =>
        (HasPosition(positions, Head(rows).symbol) /\ pc # "crashed")

\* C6 (as claimed): whatever the exchange answers, the loop never stops.
C6_LoopNeverStops == pc # "crashed"

\* C7 (as claimed): in the first cycle after process start no candles are
\* fetched and no buy is submitted.
C7_NoDiscoveryInFirstCycle == [][(KlinesCall \/ BuyCall) => ~first]_vars

\* C8 (as claimed): no buy is submitted for a symbol that has a row in the
\* table.
C8_NoBuyWhileHeld == [][BuyCall => ~HasPosition(positions, sym)]_vars

\* C9: the table never holds two rows of one symbol, also after a second
\* successful buy of a symbol that is held.
C9_OneRowPerSymbol ==
    \A i, j \in DOMAIN positions :
        positions[i].symbol = positions[j].symbol => i = j

\* a buy has just replaced the row of a held symbol, and the symbol has one row
C9_Witness ==
    /\ reopened
    /\ positions # <<>>
    /\ Len(RowsOf(positions, positions[Len(positions)].symbol)) = 1

\* C10: every evaluation tests TARGET against the multiplier the webhook set
\* last, whenever the position was opened and wherever it is in the pass.
C10_TargetHotApplied ==
    [][EvalStep =>
        (reason' = "TARGET" <=>
            price >= Head(rows).entry_price * TARGET_MULTIPLIER)]_vars

\* a position that is not the first of its pass is being sold for TARGET at
\* a high below entry_price times the startup multiplier, under a multiplier
\* set by /settarget
C10_Witness ==
    /\ pc = "sell"
    /\ reason = "TARGET"
    /\ TARGET_MULTIPLIER # DefaultTarget
    /\ Len(rows) < Len(positions)
    /\ HasPosition(positions, Head(rows).symbol)
    /\ Stored(positions, Head(rows).symbol).high_price
            < Head(rows).entry_price * DefaultTarget

\* C11 (as claimed): the reads of the table behave as if each ran alone: the
\* quantity of every sell request is the qty stored for the symbol sold.
C11_SellsStoredQuantity ==
    [][SellCall =>
        FirstColumn(cur) = Stored(positions, Head(rows).symbol).qty]_vars

\* C12: a /setbuy or /settarget whose argument is missing or not a number is
\* answered with the usage message and leaves bot_running, BUY_USDT_AMOUNT,
\* TARGET_MULTIPLIER, the table, the pending cursor and the trading loop as
\* they were, and the webhook is ready for the next command.
C12_InvalidInputChangesNothing ==
    [][(~usage /\ usage') =>
        /\ UNCHANGED <<config, positions, cur, locals, pc, now, hist>>
        /\ wpc' = "idle"]_vars

\* a usage message is the last reply, after both settings were set to values
\* other than the startup ones and while a position is held
C12_Witness ==
    /\ usage
    /\ BUY_USDT_AMOUNT = 5
    /\ TARGET_MULTIPLIER = 2
    /\ positions # <<>>

\* C13: when the response to a buy has no orderId, market_buy leaves the
\* table as it is and the for loop of Discovery goes on with the candidates
\* it had left, the refused symbol not among them; no symbol joins the
\* candidates while the for loop runs, so the refused symbol is not bought
\* again in this cycle.
C13_RejectedBuy ==
    [][/\ (pc = "bought" /\ ~data.orderId /\ pc' # "bought") =>
            /\ positions' = positions
            /\ pc' = "discover"
            /\ new' = new
            /\ sym \notin new'
       /\ (pc \in {"discover", "buy", "bought"}) => new' \subseteq new]_vars

\* the exchange has refused the buy of a symbol while another candidate of
\* the cycle is still to be visited
C13_Witness ==
    /\ pc = "bought"
    /\ ~data.orderId
    /\ new # {}

\* C14: every row of the table has high_price >= entry_price: market_buy
\* writes a row with high_price = entry_price, and any other change of a
\* stored row is the UPDATE of the Monitor pass setting high_price, and
\* nothing else, to the price just fetched, which is above the old high.
C14_HighAtLeastEntry ==
    /\ [](\A i \in DOMAIN positions :
            positions[i].high_price >= positions[i].entry_price)
    /\ [][\A s \in Syms :
            (HasPosition(positions', s) /\ RowsOf(positions', s) # RowsOf(positions, s)) =>
                LET after == Stored(positions', s)
                IN  IF pc = "bought"
                    THEN s = sym /\ after.high_price = after.entry_price
                    ELSE /\ pc = "eval"
                         /\ HasPosition(positions, s)
                         /\ after.high_price = price
                         /\ after.high_price > Stored(positions, s).high_price
                         /\ after = [Stored(positions, s) EXCEPT !.high_price = price]]_vars

\* a row whose high_price was raised above its entry_price
C14_Witness ==
    \E i \in DOMAIN positions : positions[i].high_price > positions[i].entry_price

\* C15: the trailing stop fires at and below high_price * (1 - 0.15), the
\* high being the stored one after this evaluation's update: for a row bought
\* at 100 whose high is 200 the prices up to and including 170 are sold for
\* TRAIL and the prices from 171 on are not.
C15_TrailFloorInclusive ==
    [][EvalStep =>
        LET r == Head(rows)
            h == Stored(positions', r.symbol).high_price
        IN  /\ (reason' = "TRAIL") <=> (100 * price <= 85 * h)
            /\ (r.entry_price = 100 /\ h = 200) =>
                    /\ (price <= 170) => (reason' = "TRAIL" /\ pc' = "sell")
                    /\ (price >= 171) => reason' # "TRAIL"]_vars

\* the row bought at 100 with high 200 is being sold for TRAIL at the price
\* 170
C15_Witness ==
    /\ pc = "sell"
    /\ reason = "TRAIL"
    /\ price = 170
    /\ Head(rows).entry_price = 100
    /\ Stored(positions, Head(rows).symbol).high_price = 200

\* C16 (as claimed): a symbol whose candles the previous Discovery did not get
\* is a candidate again in the next Discovery whose exchangeInfo lists it as
\* tradable.
C16_RetriedNextCycle ==
    [][(pc = "info" /\ pc' = "discover") =>
        (skipped \cap known') \subseteq new']_vars

\* C17 (as claimed): a running cycle does not end at its exchangeInfo request
\* while the table holds a row: whatever that request returns, the cycle goes
\* on to the Monitor pass.
C17_MonitorEveryRunningCycle ==
    [][(InfoCall /\ positions # <<>>) => pc' # "loop"]_vars

\* C18 (as claimed): the row of a symbol leaves the table only in the step of
\* market_sell in which the sell request for that symbol, for the quantity
\* stored in the row, has returned a response.
C18_RemovedOnlyAfterSellOfStoredQty ==
    [][\A s \in Syms :
        (HasPosition(positions, s) /\ ~HasPosition(positions', s)) =>
            /\ SellCall
            /\ pc' # "crashed"
            /\ Head(rows).symbol = s
            /\ FirstColumn(cur) = Stored(positions, s).qty]_vars

C20_PausedCycleIsNoOp ==
    [][(pc = "loop" /\ ~bot_running) =>
        /\ UNCHANGED <<positions, locals, hist>>
        /\ pc' = "loop"
        /\ ~GatewayCall]_vars

\* the loop is paused at the top of a cycle while it holds a position whose
\* hold time has run out
C20_Witness ==
    /\ pc = "loop"
    /\ ~bot_running
    /\ ~first
    /\ \E i \in DOMAIN positions : now - positions[i].entry_time >= SELL_TIMEOUT
====
